---- MODULE Spec2Model ----
(***************************************************************************)
(* Scholma MultiPress -> HubSpot deal status sync.                         *)
(*                                                                         *)
(* Two entry points reconcile CRM deals with the quotation system:         *)
(*   - the web service  (src/app.py, GET /sync)                            *)
(*   - the command line (src/sync_deal_status.py, main)                    *)
(* The model holds the CRM (deal stages, follow-up tasks), the quotation   *)
(* system (status per quotation number), and one control thread that runs  *)
(* a reconciliation pass; the service fans the quotation lookups out to a  *)
(* worker pool.  Every HTTP request is one step whose response is chosen   *)
(* from the outcomes the upstream can give.                                *)
(*                                                                         *)
(* Strings the code parses are sequences of one-character strings; the     *)
(* letter "V" stands for the word "Opvolgen" and "O" for the word          *)
(* "Offerte" (the two search tokens), "x" for any other text.              *)
(*                                                                         *)
(* A stage PATCH and a task DELETE are modelled with the HTTP responses    *)
(* the code tests (200 / 204 or another code).  The quotation lookup and   *)
(* the searches also have the outcome "the request raised", which the      *)
(* service's check_mp_status catches and nothing else does.                *)
(***************************************************************************)
EXTENDS Integers, Sequences, FiniteSets, TLC

\* ------------------------------------------------------------------ bounds
\* Number of deals in the CRM.
NDeals == 3
\* Number of follow-up tasks in the CRM.
NTasks == 3
\* Page size of the paginated searches ("limit": 100 in the code, scaled).
PageLimit == 2
\* Number of reconciliation runs made in succession.
MaxRuns == 2

Deals == 1..NDeals
Tasks == 1..NTasks

\* Python's None as a lookup status, and the absent quotation number.
None == "None"
NoQn == <<>>

\* --------------------------------------------------------- configuration
STAGES == <<"3594129634", "3594129635", "3594129636", "3594129637",
            "4087013618", "4073418949">>
STAGE_VOORSTEL_VERSTUURD == "3594129636"
STAGE_GEWONNEN == "3594129638"
STAGE_VERLOREN == "3594129640"

STATUS_WON == {"Order"}
STATUS_LOST == {"Order ao", "Vervallen", "Niet gegund", "Te duur >10%"}

\* ThreadPoolExecutor(max_workers=20)
max_workers == 20

\* ------------------------------------------------------- string helpers
Digits == {"1", "2"}

isdigit(s) == Len(s) > 0 /\ \A i \in 1..Len(s) : s[i] \in Digits

Min(S) == CHOOSE x \in S : \A y \in S : x <= y

\* The maximal run of digits of s that starts at position i (\d+, greedy).
DigitRun(s, i) ==
    LET stop == {j \in i..Len(s) : s[j] \notin Digits}
        last == IF stop = {} THEN Len(s) ELSE Min(stop) - 1
    IN  SubSeq(s, i, last)

\* re.search(r"#(\d+)", s): group 1 of the leftmost match, or NoQn.
SearchHashDigits(s) ==
    LET at == {i \in 1..Len(s) : s[i] = "#" /\ i < Len(s) /\ s[i+1] \in Digits}
    IN  IF at = {} THEN NoQn ELSE DigitRun(s, Min(at) + 1)

\* Position just after the run of blanks starting at i (\s*, greedy).
SkipBlanks(s, i) ==
    LET stop == {j \in i..Len(s) : s[j] # " "}
    IN  IF stop = {} THEN Len(s) + 1 ELSE Min(stop)

\* re.search(r"Offerte\s*#(\d+)", s): group 1 of the leftmost match, or NoQn.
SearchOfferteHashDigits(s) ==
    LET at == {i \in 1..Len(s) :
                 /\ s[i] = "O"
                 /\ LET h == SkipBlanks(s, i + 1)
                    IN  h < Len(s) /\ s[h] = "#" /\ s[h+1] \in Digits}
    IN  IF at = {} THEN NoQn
        ELSE DigitRun(s, SkipBlanks(s, Min(at) + 1) + 1)

\* Python's  needle in s  for strings.
Contains(s, needle) ==
    \E i \in 1..(Len(s) - Len(needle) + 1) :
        SubSeq(s, i, i + Len(needle) - 1) = needle

\* The elements of a set of numbers as an ascending sequence.
RECURSIVE SortedSeq(_)
SortedSeq(S) ==
    IF S = {} THEN <<>> ELSE <<Min(S)>> \o SortedSeq(S \ {Min(S)})

\* ------------------------------------------------------------- CRM data
\* The properties of deal d as the deal search returns them.
DealProps(d) ==
    CASE d % 4 = 1 -> [dealname |-> <<"O", " ", "#", "1", " ", "x">>,
                       client_system_deal_id |-> <<"2">>, offerte_id |-> <<>>]
      [] d % 4 = 2 -> [dealname |-> <<"x">>,
                       client_system_deal_id |-> <<"x", "1">>, offerte_id |-> <<>>]
      [] d % 4 = 3 -> [dealname |-> <<"x", "#">>,
                       client_system_deal_id |-> <<"1", "2">>, offerte_id |-> <<"2">>]
      [] OTHER     -> [dealname |-> <<"x">>,
                       client_system_deal_id |-> <<>>, offerte_id |-> <<"2">>]

\* The stages of the deals before the first run: one deal is in stage
\* "Onderhandeling", the others in "Voorstel verstuurd".
InitialStages == {[d \in Deals |-> IF d = o THEN "3594129637"
                                   ELSE STAGE_VOORSTEL_VERSTUURD] : o \in Deals}

\* hs_task_subject of task t.
TaskSubject(t) ==
    CASE t % 4 = 1 -> <<"V", " ", "O", " ", "#", "1">>
      [] t % 4 = 2 -> <<"V", " ", "O", "#", "1", "2">>
      [] t % 4 = 3 -> <<"V", " ", "O", "#", "2">>
      [] OTHER     -> <<"O", "#", "1">>

\* The deals task t is associated with.
TaskDeals(t) ==
    CASE t % 4 = 1 -> {1}
      [] t % 4 = 2 -> {3}
      [] t % 4 = 3 -> {}
      [] OTHER     -> {2}

\* Statuses the quotation system can hold for quotation number qn.
MpStatuses(qn) ==
    IF qn = <<"1">> THEN {"Order", "Vervallen", "xyz"}
    ELSE {"Order", "Niet gegund", "Offerte uitgebracht"}

\* ------------------------------------------------------- pure functions
\* extract_qn / extract_quotation_number: the quotation number of a deal.
extract_qn(props) ==
    IF SearchHashDigits(props.dealname) # NoQn
        THEN SearchHashDigits(props.dealname)
    ELSE IF isdigit(props.client_system_deal_id)
        THEN props.client_system_deal_id
    ELSE IF isdigit(props.offerte_id)
        THEN props.offerte_id
    ELSE NoQn

\* Classify with its final else moving the deal: any status that is not a
\* Lost status counts as won.
ClassifyUnknownWon(mp_status) ==
    IF mp_status = None THEN "error"
    ELSE IF mp_status \in STATUS_LOST THEN "lost"
    ELSE "won"

\* The if/elif chain on mp_status after a lookup: the bucket of the deal.
Classify(mp_status) ==
    IF mp_status = None THEN "error"
    ELSE IF mp_status \in STATUS_WON THEN "won"
    ELSE IF mp_status \in STATUS_LOST THEN "lost"
    ELSE "skip"

\* Quotation numbers the deals of the CRM carry.
QNs == {extract_qn(DealProps(d)) : d \in Deals} \ {NoQn}

\* ---------------------------------------------------------------- state
VARIABLES
    variant,        \* "service" (app.py) or "cli" (sync_deal_status.py)
    dry_run,        \* cli: not args.execute
    stage_param,    \* service: the stage query parameter
    dealstage,      \* CRM: stage id of every deal
    tasks,          \* CRM: the follow-up tasks that exist
    mp,             \* quotation system: status of every quotation number
    run,            \* number of the current run
    pc,             \* position of the control thread
    si,             \* index into the stage ids being fetched
    after,          \* paging cursor of the search in progress
    deals,          \* deals fetched so far
    work,           \* service: (deal, qn) items handed to the pool
    lookup,         \* service: per work item "queued", "running" or its result
    consumed,       \* number of lookup results the control thread has handled
    won, lost,      \* items classified won / lost
    skip, errors, no_qn,
    idx,            \* loop index of the current write loop
    updated_won, updated_lost, tasks_deleted,
    all_tasks,      \* task ids collected by the task search
    tasks_map,      \* service: qn -> task ids
    remaining,      \* service: quotation numbers still to clean up
    cur,            \* task ids being processed for the current item
    patchLog,       \* stage PATCH requests issued in this run
    deleteLog,      \* task DELETE requests issued in this run
    lookupLog,      \* deal -> response of its quotation lookup in this run
    readFailed,     \* searches of this run that got a non-success response
    dryLog,         \* cli dry-run: the writes it printed instead of sending
    report,         \* <<the report of the run>>, once produced
    movedBefore     \* deals moved to won/lost by earlier runs

config == <<variant, dry_run, stage_param>>
crm == <<dealstage, tasks>>
fetch == <<si, after, deals>>
pool == <<work, lookup, consumed>>
buckets == <<won, lost, skip, errors, no_qn>>
counters == <<updated_won, updated_lost, tasks_deleted>>
cleanup == <<all_tasks, tasks_map, remaining, cur>>
logs == <<patchLog, deleteLog, lookupLog, readFailed, dryLog>>

vars == <<config, crm, mp, run, pc, fetch, pool, buckets, idx, counters,
          cleanup, logs, report, movedBefore>>

\* StageIds with the Won stage among the stages fetched.
StageIdsWithWonStage ==
    IF variant = "cli" THEN <<STAGE_VOORSTEL_VERSTUURD, STAGE_GEWONNEN>>
    ELSE IF stage_param = "voorstel" THEN <<"3594129636", STAGE_GEWONNEN>>
    ELSE STAGES \o <<STAGE_GEWONNEN>>

\* The stage ids a run fetches: sync's stage_ids, or the CLI's single stage.
StageIds ==
    IF variant = "cli" THEN <<STAGE_VOORSTEL_VERSTUURD>>
    ELSE IF stage_param = "voorstel" THEN <<"3594129636">>
    ELSE STAGES

\* No item is being cleaned up.
NoCur == [qn |-> NoQn, deal |-> 0, ids |-> <<>>]

\* The local state of a run as it starts.
RunStart ==
    /\ pc = "fetch"
    /\ si = 1 /\ after = 0 /\ deals = <<>>
    /\ work = <<>> /\ lookup = <<>> /\ consumed = 0
    /\ won = <<>> /\ lost = <<>> /\ skip = 0 /\ errors = 0 /\ no_qn = 0
    /\ idx = 1
    /\ updated_won = 0 /\ updated_lost = 0 /\ tasks_deleted = 0
    /\ all_tasks = <<>> /\ tasks_map = <<>> /\ remaining = {} /\ cur = NoCur
    /\ patchLog = <<>> /\ deleteLog = <<>>
    /\ lookupLog = [d \in Deals |-> "unchecked"]
    /\ readFailed = {}
    /\ dryLog = <<>>
    /\ report = <<>>

Init ==
    /\ \E c \in {<<"service", FALSE, "all">>, <<"service", FALSE, "voorstel">>,
                 <<"cli", TRUE, "all">>, <<"cli", FALSE, "all">>} :
          variant = c[1] /\ dry_run = c[2] /\ stage_param = c[3]
    /\ dealstage \in InitialStages
    /\ tasks = Tasks
    /\ mp \in {f \in [QNs -> UNION {MpStatuses(q) : q \in QNs}] :
                 \A q \in QNs : f[q] \in MpStatuses(q)}
    /\ run = 1
    /\ movedBefore = {}
    /\ RunStart

\* ---------------------------------------------------------- deal search
\* One page of the deal search for the current stage: get_deals_by_stage /
\* get_hubspot_deals.  A non-success response raises (raise_for_status).
FetchPage ==
    /\ pc = "fetch"
    /\ LET stage == StageIds[si]
           found == SortedSeq({d \in Deals : dealstage[d] = stage})
           upto == IF after + PageLimit < Len(found)
                       THEN after + PageLimit ELSE Len(found)
           more == after + PageLimit < Len(found)
       IN  \E ok \in BOOLEAN :
             IF ~ok
             THEN /\ pc' = "aborted"
                  /\ readFailed' = readFailed \cup {"deals"}
                  /\ UNCHANGED fetch
             ELSE /\ deals' = deals \o SubSeq(found, after + 1, upto)
                  /\ UNCHANGED readFailed
                  /\ IF more
                     THEN /\ after' = after + PageLimit
                          /\ UNCHANGED <<si, pc>>
                     ELSE /\ after' = 0
                          /\ si' = si + 1
                          /\ pc' = IF si < Len(StageIds) THEN "fetch"
                                   ELSE IF variant = "service" THEN "build"
                                   ELSE "check"
    /\ UNCHANGED <<config, crm, mp, run, pool, buckets, idx, counters,
                   cleanup, patchLog, deleteLog, lookupLog, dryLog, report,
                   movedBefore>>

\* ------------------------------------------------------------ responses
\* What one quotation lookup can come back with: the status of the
\* quotation (HTTP 200), a non-200 response, or a transport failure/timeout.
LookupResponses(qn) == {mp[qn], "HTTP", "EXC"}

\* check_mp_status (service): the mp_status it returns for a response;
\* the try/except folds every failure into None.
check_mp_status(resp) == IF resp \in {"HTTP", "EXC"} THEN None ELSE resp

\* The item appended to won / lost.
Item(deal, qn) == [deal_id |-> deal, qn |-> qn]

\* One PATCH of a deal's stage as the CRM handles it.
PatchEntry(deal, stage, code) == [deal |-> deal, stage |-> stage, ok |-> code = 200]

\* One DELETE of a task as the CRM handles it; assoc is the status code of
\* the association lookup made before it (0: none was made).
DeleteEntry(task, qn, deal, assoc, ok) ==
    [task |-> task, qn |-> qn, deal |-> deal, assoc |-> assoc, ok |-> ok]

\* Responses a DELETE of task t can get: success only while the task exists.
DeleteOutcomes(t) == IF t \in tasks THEN {TRUE, FALSE} ELSE {FALSE}

\* ------------------------------------------------- service: lookup fan-out
\* sync, "Build work items": deals without a quotation number are counted,
\* the others are handed to the pool (pool.map submits them all).
SvcBuildWork ==
    /\ pc = "build"
    /\ LET has == SelectSeq(deals, LAMBDA d : extract_qn(DealProps(d)) # NoQn)
       IN  /\ work' = [i \in 1..Len(has) |-> Item(has[i], extract_qn(DealProps(has[i])))]
           /\ no_qn' = Len(deals) - Len(has)
           /\ lookup' = [i \in 1..Len(has) |-> [st |-> "queued", resp |-> ""]]
    /\ pc' = "pool"
    /\ UNCHANGED <<config, crm, mp, run, fetch, consumed, won, lost, skip, errors,
                   idx, counters, cleanup, logs, report, movedBefore>>

\* A pool thread takes the next queued item and sends its lookup (_check).
WorkerStart(i) ==
    /\ pc = "pool"
    /\ i \in 1..Len(lookup)
    /\ lookup[i].st = "queued"
    /\ \A j \in 1..(i - 1) : lookup[j].st # "queued"
    /\ Cardinality({j \in 1..Len(lookup) : lookup[j].st = "running"}) < max_workers
    /\ lookup' = [lookup EXCEPT ![i].st = "running"]
    /\ UNCHANGED <<config, crm, mp, run, pc, fetch, work, consumed, buckets, idx,
                   counters, cleanup, logs, report, movedBefore>>

\* The lookup of item i comes back (check_mp_status in a pool thread).
WorkerFinish(i) ==
    /\ pc = "pool"
    /\ i \in 1..Len(lookup)
    /\ lookup[i].st = "running"
    /\ \E resp \in LookupResponses(work[i].qn) :
         /\ lookup' = [lookup EXCEPT ![i] = [st |-> "done", resp |-> resp]]
         /\ lookupLog' = [lookupLog EXCEPT ![work[i].deal_id] = resp]
    /\ UNCHANGED <<config, crm, mp, run, pc, fetch, work, consumed, buckets, idx,
                   counters, cleanup, patchLog, deleteLog, readFailed, dryLog, report,
                   movedBefore>>

\* ResultReady without the wait: the result of item i is taken as it is.
ResultReadyNoWait(i) == TRUE

\* pool.map yields the result of item i once its lookup has completed.
ResultReady(i) == lookup[i].st = "done"

\* The body of  for ... in pool.map(_check, work):  one result is classified.
\* Past the last result the with-block ends and the update phase begins.
SvcConsume ==
    /\ pc = "pool"
    /\ IF consumed < Len(work)
       THEN LET i == consumed + 1
                bucket == Classify(check_mp_status(lookup[i].resp))
            IN  /\ ResultReady(i)
                /\ consumed' = i
                /\ errors' = IF bucket = "error" THEN errors + 1 ELSE errors
                /\ won' = IF bucket = "won" THEN Append(won, work[i]) ELSE won
                /\ lost' = IF bucket = "lost" THEN Append(lost, work[i]) ELSE lost
                /\ skip' = IF bucket = "skip" THEN skip + 1 ELSE skip
                /\ UNCHANGED <<pc, idx>>
       ELSE /\ pc' = "upd_won"
            /\ idx' = 1
            /\ UNCHANGED <<consumed, won, lost, skip, errors>>
    /\ UNCHANGED <<config, crm, mp, run, fetch, work, lookup, no_qn, counters,
                   cleanup, logs, report, movedBefore>>

\* ------------------------------------------------- service: stage updates
\* sync, "Step 3": one PATCH per won item, then on to the lost items.
SvcPatchWon ==
    /\ pc = "upd_won"
    /\ IF idx <= Len(won)
       THEN \E code \in {200, 500} :
              /\ patchLog' = Append(patchLog, PatchEntry(won[idx].deal_id, STAGE_GEWONNEN, code))
              /\ dealstage' = IF code = 200
                                THEN [dealstage EXCEPT ![won[idx].deal_id] = STAGE_GEWONNEN]
                                ELSE dealstage
              /\ updated_won' = IF code = 200 THEN updated_won + 1 ELSE updated_won
              /\ idx' = idx + 1
              /\ UNCHANGED pc
       ELSE /\ pc' = "upd_lost"
            /\ idx' = 1
            /\ UNCHANGED <<patchLog, dealstage, updated_won>>
    /\ UNCHANGED <<config, tasks, mp, run, fetch, pool, buckets, updated_lost,
                   tasks_deleted, cleanup, deleteLog, lookupLog, readFailed, dryLog,
                   report, movedBefore>>

\* sync, "Step 3": one PATCH per lost item, then on to the task cleanup.
SvcPatchLost ==
    /\ pc = "upd_lost"
    /\ IF idx <= Len(lost)
       THEN \E code \in {200, 500} :
              /\ patchLog' = Append(patchLog, PatchEntry(lost[idx].deal_id, STAGE_VERLOREN, code))
              /\ dealstage' = IF code = 200
                                THEN [dealstage EXCEPT ![lost[idx].deal_id] = STAGE_VERLOREN]
                                ELSE dealstage
              /\ updated_lost' = IF code = 200 THEN updated_lost + 1 ELSE updated_lost
              /\ idx' = idx + 1
              /\ UNCHANGED pc
       ELSE /\ pc' = "find"
            /\ idx' = 1
            /\ UNCHANGED <<patchLog, dealstage, updated_lost>>
    /\ UNCHANGED <<config, tasks, mp, run, fetch, pool, buckets, updated_won,
                   tasks_deleted, cleanup, deleteLog, lookupLog, readFailed, dryLog,
                   report, movedBefore>>

\* ------------------------------------------------- service: task cleanup
\* sync:  all_updated_qns = set(d["qn"] for d in won + lost)
all_updated_qns == {(won \o lost)[i].qn : i \in 1..Len(won \o lost)}

\* find_opvolgen_tasks, "Map qn -> [task_ids]": a task is kept under the
\* number its subject encodes when that number is in qn_set.
TasksMap(found, qn_set) ==
    LET number(t) == SearchOfferteHashDigits(TaskSubject(t))
        keys == {number(found[i]) : i \in 1..Len(found)} \cap qn_set
    IN  [q \in keys |-> SelectSeq(found, LAMBDA t : number(t) = q)]

\* find_opvolgen_tasks: one page of the search for tasks with the token
\* "Opvolgen".  The response is not checked: an error body without results
\* ends the loop with what was collected, a body that is no JSON raises.
\* With no won/lost identifier the search is not made at all.
SvcTaskSearchPage ==
    /\ pc = "find"
    /\ IF all_updated_qns = {}
       THEN /\ pc' = "del"
            /\ UNCHANGED <<after, all_tasks, tasks_map, remaining, readFailed>>
       ELSE LET found == SortedSeq({t \in tasks : Contains(TaskSubject(t), <<"V">>)})
                upto == IF after + PageLimit < Len(found)
                            THEN after + PageLimit ELSE Len(found)
                more == after + PageLimit < Len(found)
            IN  \E out \in {"ok", "error body", "no json"} :
                  CASE out = "ok" ->
                         /\ all_tasks' = all_tasks \o SubSeq(found, after + 1, upto)
                         /\ UNCHANGED readFailed
                         /\ IF more
                            THEN /\ after' = after + PageLimit
                                 /\ UNCHANGED <<pc, tasks_map, remaining>>
                            ELSE /\ after' = 0
                                 /\ tasks_map' = TasksMap(all_tasks', all_updated_qns)
                                 /\ remaining' = all_updated_qns
                                 /\ pc' = "del"
                    [] out = "error body" ->
                         /\ readFailed' = readFailed \cup {"tasks"}
                         /\ after' = 0
                         /\ tasks_map' = TasksMap(all_tasks, all_updated_qns)
                         /\ remaining' = all_updated_qns
                         /\ pc' = "del"
                         /\ UNCHANGED all_tasks
                    [] OTHER ->
                         /\ readFailed' = readFailed \cup {"tasks"}
                         /\ pc' = "aborted"
                         /\ UNCHANGED <<after, all_tasks, tasks_map, remaining>>
    /\ UNCHANGED <<config, crm, mp, run, si, deals, pool, buckets, idx, counters,
                   cur, patchLog, deleteLog, lookupLog, dryLog, report,
                   movedBefore>>

\* The report sync returns.
SvcReportValue ==
    [deals_checked |-> Len(deals), no_quotation_number |-> no_qn,
     api_errors |-> errors, unchanged |-> skip,
     won |-> updated_won, lost |-> updated_lost, tasks_deleted |-> tasks_deleted]

\* sync, "Step 4":  for qn in all_updated_qns  (a set, iterated in any
\* order) enters delete_task_for_qn; after the last one the report is returned.
SvcNextQn ==
    /\ pc = "del"
    /\ IF remaining # {}
       THEN \E qn \in remaining :
              /\ remaining' = remaining \ {qn}
              /\ IF qn \in DOMAIN tasks_map
                 THEN /\ cur' = [qn |-> qn, deal |-> 0, ids |-> tasks_map[qn]]
                      /\ pc' = "del_task"
                 ELSE UNCHANGED <<cur, pc>>
              /\ UNCHANGED report
       ELSE /\ report' = <<SvcReportValue>>
            /\ pc' = "reported"
            /\ UNCHANGED <<remaining, cur>>
    /\ UNCHANGED <<config, crm, mp, run, fetch, pool, buckets, idx, counters,
                   all_tasks, tasks_map, logs, movedBefore>>

\* delete_task_for_qn: one DELETE per task id listed under the number.
SvcDeleteTask ==
    /\ pc = "del_task"
    /\ IF cur.ids # <<>>
       THEN LET t == Head(cur.ids)
            IN  \E ok \in DeleteOutcomes(t) :
                  /\ deleteLog' = Append(deleteLog, DeleteEntry(t, cur.qn, 0, 0, ok))
                  /\ tasks' = IF ok THEN tasks \ {t} ELSE tasks
                  /\ tasks_deleted' = IF ok THEN tasks_deleted + 1 ELSE tasks_deleted
                  /\ cur' = [cur EXCEPT !.ids = Tail(cur.ids)]
                  /\ UNCHANGED pc
       ELSE /\ pc' = "del"
            /\ cur' = NoCur
            /\ UNCHANGED <<deleteLog, tasks, tasks_deleted>>
    /\ UNCHANGED <<config, dealstage, mp, run, fetch, pool, buckets, idx,
                   updated_won, updated_lost, all_tasks, tasks_map, remaining,
                   patchLog, lookupLog, readFailed, dryLog, report, movedBefore>>

\* ------------------------------------------------------ CLI: checking
\* main, "Step 2": one pass of  for i, deal in enumerate(deals).  The lookup
\* (check_multipress_status) has no try/except: a non-200 response gives
\* None, a transport failure or timeout raises out of main.
CliCheckDeal ==
    /\ pc = "check"
    /\ IF consumed < Len(deals)
       THEN LET deal == deals[consumed + 1]
                qn == extract_qn(DealProps(deal))
            IN  IF qn = NoQn
                THEN /\ no_qn' = no_qn + 1
                     /\ consumed' = consumed + 1
                     /\ UNCHANGED <<pc, idx, won, lost, skip, errors, lookupLog>>
                ELSE \E resp \in LookupResponses(qn) :
                       /\ lookupLog' = [lookupLog EXCEPT ![deal] = resp]
                       /\ IF resp = "EXC"
                          THEN /\ pc' = "aborted"
                               /\ UNCHANGED <<consumed, idx, buckets>>
                          ELSE LET mp_status == IF resp = "HTTP" THEN None ELSE resp
                                   bucket == Classify(mp_status)
                               IN  /\ consumed' = consumed + 1
                                   /\ errors' = IF bucket = "error" THEN errors + 1 ELSE errors
                                   /\ won' = IF bucket = "won"
                                               THEN Append(won, Item(deal, qn)) ELSE won
                                   /\ lost' = IF bucket = "lost"
                                                THEN Append(lost, Item(deal, qn)) ELSE lost
                                   /\ skip' = IF bucket = "skip" THEN skip + 1 ELSE skip
                                   /\ UNCHANGED <<pc, idx, no_qn>>
       ELSE /\ pc' = "cli_upd_won"
            /\ idx' = 1
            /\ UNCHANGED <<consumed, buckets, lookupLog>>
    /\ UNCHANGED <<config, crm, mp, run, fetch, work, lookup, counters, cleanup,
                   patchLog, deleteLog, readFailed, dryLog, report, movedBefore>>

\* ------------------------------------------------------ CLI: stage updates
\* main, "Step 3", first loop: in dry-run the decision is only printed,
\* otherwise update_deal_stage sends the PATCH.
CliUpdateWon ==
    /\ pc = "cli_upd_won"
    /\ IF idx <= Len(won)
       THEN /\ idx' = idx + 1
            /\ UNCHANGED pc
            /\ IF dry_run
               THEN /\ dryLog' = Append(dryLog, [kind |-> "patch", target |-> won[idx].deal_id])
                    /\ UNCHANGED <<patchLog, dealstage, updated_won>>
               ELSE \E code \in {200, 500} :
                      /\ UNCHANGED dryLog
                      /\ patchLog' = Append(patchLog,
                                            PatchEntry(won[idx].deal_id, STAGE_GEWONNEN, code))
                      /\ dealstage' = IF code = 200
                                        THEN [dealstage EXCEPT ![won[idx].deal_id] = STAGE_GEWONNEN]
                                        ELSE dealstage
                      /\ updated_won' = IF code = 200 THEN updated_won + 1 ELSE updated_won
       ELSE /\ pc' = "cli_upd_lost"
            /\ idx' = 1
            /\ UNCHANGED <<patchLog, dealstage, updated_won, dryLog>>
    /\ UNCHANGED <<config, tasks, mp, run, fetch, pool, buckets, updated_lost,
                   tasks_deleted, cleanup, deleteLog, lookupLog, readFailed,
                   report, movedBefore>>

\* main, "Step 3", second loop.
CliUpdateLost ==
    /\ pc = "cli_upd_lost"
    /\ IF idx <= Len(lost)
       THEN /\ idx' = idx + 1
            /\ UNCHANGED pc
            /\ IF dry_run
               THEN /\ dryLog' = Append(dryLog, [kind |-> "patch", target |-> lost[idx].deal_id])
                    /\ UNCHANGED <<patchLog, dealstage, updated_lost>>
               ELSE \E code \in {200, 500} :
                      /\ UNCHANGED dryLog
                      /\ patchLog' = Append(patchLog,
                                            PatchEntry(lost[idx].deal_id, STAGE_VERLOREN, code))
                      /\ dealstage' = IF code = 200
                                        THEN [dealstage EXCEPT ![lost[idx].deal_id] = STAGE_VERLOREN]
                                        ELSE dealstage
                      /\ updated_lost' = IF code = 200 THEN updated_lost + 1 ELSE updated_lost
       ELSE /\ pc' = "cli_tasks"
            /\ idx' = 1
            /\ UNCHANGED <<patchLog, dealstage, updated_lost, dryLog>>
    /\ UNCHANGED <<config, tasks, mp, run, fetch, pool, buckets, updated_won,
                   tasks_deleted, cleanup, deleteLog, lookupLog, readFailed,
                   report, movedBefore>>

\* ------------------------------------------------------ CLI: task cleanup
\* CliReportValue printing the update counters instead of the list lengths.
CliReportUpdatedCounters ==
    [deals_checked |-> Len(deals), no_quotation_number |-> no_qn,
     api_errors |-> errors, unchanged |-> skip,
     won |-> updated_won, lost |-> updated_lost, tasks_deleted |-> tasks_deleted]

\* The report main prints.
CliReportValue ==
    [deals_checked |-> Len(deals), no_quotation_number |-> no_qn,
     api_errors |-> errors, unchanged |-> skip,
     won |-> Len(won), lost |-> Len(lost), tasks_deleted |-> tasks_deleted]

\* main, "Step 4": for each item of won + lost, find_and_delete_task sends
\* one search for tasks with the token "Offerte" (one page, no paging); a
\* non-200 response makes it return 0.  After the last item the summary
\* is printed.
CliTaskSearch ==
    /\ pc = "cli_tasks"
    /\ IF idx <= Len(won \o lost)
       THEN LET item == (won \o lost)[idx]
                found == SortedSeq({t \in tasks : Contains(TaskSubject(t), <<"O">>)})
                upto == IF PageLimit < Len(found) THEN PageLimit ELSE Len(found)
            IN  \E code \in {200, 500} :
                  IF code = 200
                  THEN /\ cur' = [qn |-> item.qn, deal |-> item.deal_id,
                                  ids |-> SubSeq(found, 1, upto)]
                       /\ pc' = "cli_task"
                       /\ UNCHANGED <<idx, readFailed, report>>
                  ELSE /\ readFailed' = readFailed \cup {"tasks"}
                       /\ idx' = idx + 1
                       /\ UNCHANGED <<cur, pc, report>>
       ELSE /\ report' = <<CliReportValue>>
            /\ pc' = "reported"
            /\ UNCHANGED <<idx, cur, readFailed>>
    /\ UNCHANGED <<config, crm, mp, run, fetch, pool, buckets, counters,
                   all_tasks, tasks_map, remaining, patchLog, deleteLog,
                   lookupLog, dryLog, movedBefore>>

\* find_and_delete_task: the subject test of one task of the search result.
CliSubjectMatches(subject, quotation_number) ==
    Contains(subject, <<"#">> \o quotation_number)

\* find_and_delete_task: whether the association lookup lets the task
\* through: a 200 response must list the deal, any other response is not
\* looked at.
CliAssociationPasses(code, linked_deals, deal_id) ==
    code # 200 \/ deal_id \in linked_deals

\* find_and_delete_task, the body of  for task in results:  subject test,
\* association lookup, then the DELETE (or, in dry-run, the printed line).
CliTaskStep ==
    /\ pc = "cli_task"
    /\ IF cur.ids # <<>>
       THEN LET t == Head(cur.ids)
            IN  /\ cur' = [cur EXCEPT !.ids = Tail(cur.ids)]
                /\ UNCHANGED <<pc, idx>>
                /\ IF ~CliSubjectMatches(TaskSubject(t), cur.qn)
                   THEN UNCHANGED <<deleteLog, tasks, tasks_deleted, dryLog>>
                   ELSE \E code \in {200, 500} :
                          IF ~CliAssociationPasses(code, TaskDeals(t), cur.deal)
                          THEN UNCHANGED <<deleteLog, tasks, tasks_deleted, dryLog>>
                          ELSE IF dry_run
                          THEN /\ dryLog' = Append(dryLog, [kind |-> "delete", target |-> t])
                               /\ UNCHANGED <<deleteLog, tasks, tasks_deleted>>
                          ELSE \E ok \in DeleteOutcomes(t) :
                                 /\ UNCHANGED dryLog
                                 /\ deleteLog' = Append(deleteLog,
                                                        DeleteEntry(t, cur.qn, cur.deal, code, ok))
                                 /\ tasks' = IF ok THEN tasks \ {t} ELSE tasks
                                 /\ tasks_deleted' = IF ok THEN tasks_deleted + 1
                                                     ELSE tasks_deleted
       ELSE /\ pc' = "cli_tasks"
            /\ idx' = idx + 1
            /\ cur' = NoCur
            /\ UNCHANGED <<deleteLog, tasks, tasks_deleted, dryLog>>
    /\ UNCHANGED <<config, dealstage, mp, run, fetch, pool, buckets,
                   updated_won, updated_lost, all_tasks, tasks_map, remaining,
                   patchLog, lookupLog, readFailed, report, movedBefore>>

\* ------------------------------------------------------------ next run
\* Deals whose stage PATCH succeeded in the run so far.
MovedThisRun == {patchLog[i].deal : i \in {j \in 1..Len(patchLog) : patchLog[j].ok}}

\* The reconciliation is run again once the previous run has ended; only
\* the CRM and the quotation system carry over.
Rerun ==
    /\ pc \in {"reported", "aborted"}
    /\ run < MaxRuns
    /\ run' = run + 1
    /\ movedBefore' = movedBefore \cup MovedThisRun
    /\ pc' = "fetch"
    /\ si' = 1 /\ after' = 0 /\ deals' = <<>>
    /\ work' = <<>> /\ lookup' = <<>> /\ consumed' = 0
    /\ won' = <<>> /\ lost' = <<>> /\ skip' = 0 /\ errors' = 0 /\ no_qn' = 0
    /\ idx' = 1
    /\ updated_won' = 0 /\ updated_lost' = 0 /\ tasks_deleted' = 0
    /\ all_tasks' = <<>> /\ tasks_map' = <<>> /\ remaining' = {} /\ cur' = NoCur
    /\ patchLog' = <<>> /\ deleteLog' = <<>>
    /\ lookupLog' = [d \in Deals |-> "unchecked"]
    /\ readFailed' = {}
    /\ dryLog' = <<>>
    /\ report' = <<>>
    /\ UNCHANGED <<config, crm, mp>>

Next ==
    \/ FetchPage
    \/ SvcBuildWork
    \/ \E i \in 1..NDeals : WorkerStart(i) \/ WorkerFinish(i)
    \/ SvcConsume
    \/ SvcPatchWon
    \/ SvcPatchLost
    \/ SvcTaskSearchPage
    \/ SvcNextQn
    \/ SvcDeleteTask
    \/ CliCheckDeal
    \/ CliUpdateWon
    \/ CliUpdateLost
    \/ CliTaskSearch
    \/ CliTaskStep
    \/ Rerun

Spec == Init /\ [][Next]_vars

\* ------------------------------------------------------------ properties
\* The quotation number of deal d.
DealQn(d) == extract_qn(DealProps(d))

\* The outcome the classification table gives a lookup response.
TableOutcome(resp) ==
    IF resp \in {"HTTP", "EXC"} THEN "error"
    ELSE IF resp = "Order" THEN "won"
    ELSE IF resp \in {"Order ao", "Vervallen", "Niet gegund", "Te duur >10%"} THEN "lost"
    ELSE "skip"

\* The fetched deals whose lookup response falls in bucket b.
InBucket(b) ==
    {d \in Deals : /\ \E i \in 1..Len(deals) : deals[i] = d
                   /\ lookupLog[d] # "unchecked"
                   /\ TableOutcome(lookupLog[d]) = b}

\* The fetched deals that carry no quotation number.
WithoutNumber == {d \in Deals : /\ \E i \in 1..Len(deals) : deals[i] = d
                                /\ DealQn(d) = NoQn}

PatchesOk(stage) == {j \in 1..Len(patchLog) : patchLog[j].ok /\ patchLog[j].stage = stage}
DeletesOk == {j \in 1..Len(deleteLog) : deleteLog[j].ok}

\* C1: in every completed run the report's counters partition the fetched
\* deals: no_quotation_number + api_errors + unchanged + won + lost equals
\* deals_checked.
C1_Partition ==
    pc = "reported" =>
        LET r == report[1]
        IN  r.no_quotation_number + r.api_errors + r.unchanged + r.won + r.lost
                = r.deals_checked

\* C2: a task DELETE is issued only for a quotation number whose deal had
\* its stage written (a successful PATCH) earlier in the same run.
C2_DeleteOnlyAfterStageWrite ==
    \A i \in 1..Len(deleteLog) :
        \E j \in 1..Len(patchLog) :
            patchLog[j].ok /\ DealQn(patchLog[j].deal) = deleteLog[i].qn

\* C3: a task is deleted only if the quotation number its subject encodes
\* is exactly one of the run's won/lost identifiers.
C3_DeleteOnlyExactNumber ==
    \A i \in 1..Len(deleteLog) :
        SearchHashDigits(TaskSubject(deleteLog[i].task)) \in all_updated_qns

\* C4: a CLI dry-run sends no PATCH and no DELETE and leaves the CRM as it
\* was, and the classification counters a CLI run reports are those of the
\* lookup responses it got, whether the run is dry or live.
C4_DryRunReadsOnly ==
    variant = "cli" =>
        /\ dry_run => /\ patchLog = <<>> /\ deleteLog = <<>>
                      /\ dealstage \in InitialStages /\ tasks = Tasks
        /\ pc = "reported" =>
              LET r == report[1]
              IN  /\ r.deals_checked = Len(deals)
                  /\ r.no_quotation_number = Cardinality(WithoutNumber)
                  /\ r.api_errors = Cardinality(InBucket("error"))
                  /\ r.unchanged = Cardinality(InBucket("skip"))
                  /\ r.won = Cardinality(InBucket("won"))
                  /\ r.lost = Cardinality(InBucket("lost"))

\* C4 witness: a dry-run reached its report after printing a stage update
\* and a task deletion it would have made.
C4_Witness ==
    /\ variant = "cli" /\ dry_run /\ pc = "reported"
    /\ \E i \in 1..Len(dryLog) : dryLog[i].kind = "patch"
    /\ \E i \in 1..Len(dryLog) : dryLog[i].kind = "delete"
    /\ report[1].won + report[1].lost > 0

\* C5: once a deal-search or task-search page has failed, the run is
\* aborted and has attempted no write.
C5_ReadFailureAborts ==
    readFailed # {} => pc = "aborted" /\ patchLog = <<>> /\ deleteLog = <<>>

\* C6: a failed quotation lookup never aborts the run (only a failed search
\* does), the deal gets no stage PATCH, and it is counted in api_errors.
C6_LookupFailureRecovered ==
    /\ pc = "aborted" => readFailed # {}
    /\ \A j \in 1..Len(patchLog) : lookupLog[patchLog[j].deal] \notin {"HTTP", "EXC"}
    /\ pc = "reported" => report[1].api_errors = Cardinality(InBucket("error"))

\* C7: the won, lost and tasks_deleted counts of a live run's report count
\* exactly the writes that succeeded.
C7_ReportCountsSuccessfulWrites ==
    (pc = "reported" /\ ~dry_run) =>
        /\ report[1].won = Cardinality(PatchesOk(STAGE_GEWONNEN))
        /\ report[1].lost = Cardinality(PatchesOk(STAGE_VERLOREN))
        /\ report[1].tasks_deleted = Cardinality(DeletesOk)

\* C8: within one run a deal gets at most one stage PATCH, and only a deal
\* whose quotation status is a Won status (patched to the Won stage) or a
\* Lost status (patched to the Lost stage).
C8_PatchOnceOnlyWonLost ==
    /\ \A d \in Deals :
          Cardinality({j \in 1..Len(patchLog) : patchLog[j].deal = d}) <= 1
    /\ \A j \in 1..Len(patchLog) :
          LET p == patchLog[j]
              status == lookupLog[p.deal]
          IN  \/ p.stage = STAGE_GEWONNEN /\ status = "Order"
              \/ /\ p.stage = STAGE_VERLOREN
                 /\ status \in {"Order ao", "Vervallen", "Niet gegund", "Te duur >10%"}

\* C8 witness: a run patched one deal to Won and another to Lost and left
\* a deal with another status alone.
C8_Witness ==
    /\ pc = "reported"
    /\ \E j \in 1..Len(patchLog) : patchLog[j].stage = STAGE_GEWONNEN
    /\ \E j \in 1..Len(patchLog) : patchLog[j].stage = STAGE_VERLOREN
    /\ Len(patchLog) <= Len(deals) - 1

\* C9 as stated: a run that follows another issues no stage PATCH.
C9_SecondRunNoWrites == run > 1 => patchLog = <<>>

\* C9: a run that follows another neither refetches nor patches a deal
\* that an earlier run moved to the Won or Lost stage.
C9_MovedNotPatchedAgain ==
    run > 1 =>
        /\ \A i \in 1..Len(deals) : deals[i] \notin movedBefore
        /\ \A j \in 1..Len(patchLog) : patchLog[j].deal \notin movedBefore

\* C9 witness: the second run completed after the first run moved a deal;
\* it fetched deals and still had a stage to write for a deal left behind.
C9_Witness ==
    /\ run = 2 /\ pc = "reported"
    /\ movedBefore # {}
    /\ deals # <<>>
    /\ patchLog # <<>>

\* C10: in the service no stage PATCH and no task DELETE is issued, and
\* the control thread is in no write phase, while a quotation lookup is
\* queued or running.
C10_WritesAfterLookups ==
    (/\ variant = "service"
     /\ \/ pc \in {"upd_won", "upd_lost", "find", "del", "del_task", "reported"}
        \/ patchLog # <<>>
        \/ deleteLog # <<>>)
    => \A i \in 1..Len(lookup) : lookup[i].st = "done"

\* C10 witness: a service run fanned out two lookups and then issued a
\* stage PATCH and a task DELETE.
C10_Witness ==
    /\ variant = "service"
    /\ Len(lookup) >= 2
    /\ patchLog # <<>>
    /\ deleteLog # <<>>

\* C11: the CLI sends a task DELETE for a reconciled deal only after the
\* association lookup answered 200 and listed that deal among the task's
\* deals; a task not associated with the deal, or whose lookup got another
\* response, gets no DELETE.
C11_DeleteOnlyVerifiedAssociation ==
    variant = "cli" =>
        \A i \in 1..Len(deleteLog) :
            /\ deleteLog[i].assoc = 200
            /\ deleteLog[i].deal \in TaskDeals(deleteLog[i].task)

====
